---- MODULE Spec2Model ----
(***************************************************************************)
(* static/js/main.js of DevCollab: a DOMContentLoaded callback that binds  *)
(* a submit listener to every form and a click listener to every '.btn'    *)
(* element of the document.                                                *)
(*                                                                         *)
(* The document is a tree of elements; an event dispatched at a target     *)
(* invokes the listeners of the target and then those of its ancestors     *)
(* (addEventListener without options registers a bubble-phase listener;    *)
(* 'submit' and 'click' both bubble).  Scripts run to completion on the    *)
(* single UI thread.  Forms do not nest (HTML content model).              *)
(***************************************************************************)
EXTENDS Integers, Sequences, FiniteSets

MaxElems == 2      \* elements the document may come to hold
MaxEvents == 3     \* user interactions dispatched during the page session
MaxPasses == 2     \* invocations of the callback in SpecReinvoke

Elems == 1..MaxElems
Root == 0          \* the document node itself: parent of the top-level elements
None == [type |-> "none"]

VARIABLES
    tag,        \* tag[e]    : "form" or "other"
    cls,        \* cls[e]    : TRUE when e carries the class 'btn'
    parent,     \* parent[e] : the element's parent in the tree, or Root
    doc,        \* the elements currently in the document
    submitL,    \* submitL[e]: the submit listeners of e, each the form its closure captured
    clickL,     \* clickL[e] : the click listeners of e, each the button its closure captured
    pc,         \* where the DOMContentLoaded callback stands: "idle", "forms", "buttons"
    forms,      \* const forms   (line 5), a NodeList in document order
    buttons,    \* const buttons (line 16)
    i,          \* index of the running forEach
    ready,      \* how many times the callback has run to its end
    docAtTrigger, \* the document as it was when the callback last started
    cur,        \* the event being dispatched, or None
    console,    \* the lines console.log has written
    navigated,  \* TRUE once a native form submission has left the page
    history     \* the events dispatched so far, with what each produced

vars == <<tag, cls, parent, doc, submitL, clickL, pc, forms, buttons, i, ready,
          docAtTrigger, cur, console, navigated, history>>

domVars == <<tag, cls, parent, doc>>
passVars == <<pc, forms, buttons, i, ready, docAtTrigger>>
eventVars == <<cur, console, navigated, history>>

----------------------------------------------------------------------------
(* The document tree *)

RECURSIVE Ancestors(_)
\* the proper ancestors of e, nearest first
Ancestors(e) ==
    IF parent[e] = Root THEN <<>> ELSE <<parent[e]>> \o Ancestors(parent[e])

Range(s) == {s[k] : k \in 1..Len(s)}

\* the propagation path of an event whose target is e: target first, then bubbling
Path(e) == <<e>> \o Ancestors(e)

\* node p is a form or lies inside one
InsideForm(p) == IF p = Root THEN FALSE ELSE \E a \in Range(Path(p)) : tag[a] = "form"

RECURSIVE Preorder(_, _)
\* the elements of S below node p, in document (tree pre-) order
Preorder(p, S) ==
    LET kids == {e \in S : parent[e] = p}
        RECURSIVE Walk(_)
        Walk(K) == IF K = {} THEN <<>>
                   ELSE LET k == CHOOSE x \in K : \A y \in K : x <= y
                        IN <<k>> \o Preorder(k, S) \o Walk(K \ {k})
    IN Walk(kids)

RECURSIVE SelectSeq2(_, _)
SelectSeq2(s, S) ==
    IF s = <<>> THEN <<>>
    ELSE (IF Head(s) \in S THEN <<Head(s)>> ELSE <<>>) \o SelectSeq2(Tail(s), S)

\* faulty variant: document.querySelector('form'), the first match only
QueryFormsFirstOnly ==
    LET all == SelectSeq2(Preorder(Root, doc), {e \in doc : tag[e] = "form"})
    IN IF all = <<>> THEN <<>> ELSE <<Head(all)>>

\* document.querySelectorAll('form')
QueryForms == SelectSeq2(Preorder(Root, doc), {e \in doc : tag[e] = "form"})

\* faulty variant: document.querySelectorAll('*'), every element
QueryButtonsEverything == Preorder(Root, doc)

\* document.querySelectorAll('.btn')
QueryButtons == SelectSeq2(Preorder(Root, doc), {e \in doc : cls[e]})

----------------------------------------------------------------------------
Init ==
    /\ tag = [e \in Elems |-> "other"]
    /\ cls = [e \in Elems |-> FALSE]
    /\ parent = [e \in Elems |-> Root]
    /\ doc = {}
    /\ submitL = [e \in Elems |-> <<>>]
    /\ clickL = [e \in Elems |-> <<>>]
    /\ pc = "idle"
    /\ forms = <<>>
    /\ buttons = <<>>
    /\ i = 1
    /\ ready = 0
    /\ docAtTrigger = {}
    /\ cur = None
    /\ console = <<>>
    /\ navigated = FALSE
    /\ history = <<>>

\* faulty variant: the callback yields between its statements (an async callback), so
\* the event loop takes tasks while the pass is under way
IdleDuringPass == cur = None /\ ~navigated

\* no script is on the stack and the page is still there: the event loop takes
\* its next task only then (the callback and the handlers hold no await or yield)
Idle == pc = "idle" /\ cur = None /\ ~navigated

\* the parser, or another script, appends a new leaf element under p
AddElement(e, t, c, p) ==
    /\ Idle
    /\ e = Cardinality(doc) + 1
    /\ e \in Elems
    /\ p \in doc \cup {Root}
    /\ t = "form" => ~InsideForm(p)
    /\ tag' = [tag EXCEPT ![e] = t]
    /\ cls' = [cls EXCEPT ![e] = c]
    /\ parent' = [parent EXCEPT ![e] = p]
    /\ doc' = doc \cup {e}
    /\ UNCHANGED <<submitL, clickL, passVars, eventVars>>

----------------------------------------------------------------------------
(* The DOMContentLoaded callback, lines 3-22 *)

\* faulty variant: the closure sees a function-scoped variable, left at the last form
BindSubmitLastForm(L, form) == [L EXCEPT ![form] = Append(@, forms[Len(forms)])]

\* form.addEventListener('submit', function(event) {...}): a new closure over form
BindSubmit(L, form) == [L EXCEPT ![form] = Append(@, form)]

\* button.addEventListener('click', function() {...}): a new closure over button
BindClick(L, button) == [L EXCEPT ![button] = Append(@, button)]

\* the callback is invoked and runs line 5
StartPass ==
    /\ forms' = QueryForms
    /\ buttons' = <<>>
    /\ i' = 1
    /\ pc' = "forms"
    /\ docAtTrigger' = doc
    /\ UNCHANGED <<domVars, submitL, clickL, ready, eventVars>>

\* the browser fires DOMContentLoaded, once per page load
ContentLoaded ==
    /\ Idle
    /\ ready = 0
    /\ StartPass

\* one iteration of forms.forEach, lines 6-13
BindForm ==
    /\ pc = "forms"
    /\ i <= Len(forms)
    /\ submitL' = BindSubmit(submitL, forms[i])
    /\ i' = i + 1
    /\ UNCHANGED <<domVars, clickL, pc, forms, buttons, ready, docAtTrigger, eventVars>>

\* line 16, once forms.forEach has returned
SelectButtons ==
    /\ pc = "forms"
    /\ i > Len(forms)
    /\ buttons' = QueryButtons
    /\ i' = 1
    /\ pc' = "buttons"
    /\ UNCHANGED <<domVars, submitL, clickL, forms, ready, docAtTrigger, eventVars>>

\* one iteration of buttons.forEach, lines 17-21
BindButton ==
    /\ pc = "buttons"
    /\ i <= Len(buttons)
    /\ clickL' = BindClick(clickL, buttons[i])
    /\ i' = i + 1
    /\ UNCHANGED <<domVars, submitL, pc, forms, buttons, ready, docAtTrigger, eventVars>>

\* line 22: the callback returns
Return ==
    /\ pc = "buttons"
    /\ i > Len(buttons)
    /\ pc' = "idle"
    /\ i' = 1
    /\ ready' = ready + 1
    /\ UNCHANGED <<domVars, submitL, clickL, forms, buttons, docAtTrigger, eventVars>>

\* the callback is invoked again on the same document (a second DOMContentLoaded
\* dispatched at the document, or the script included twice)
Reinvoke ==
    /\ Idle
    /\ ready >= 1
    /\ ready < MaxPasses
    /\ StartPass

----------------------------------------------------------------------------
(* Events *)

RECURSIVE Flatten(_, _)
\* the listeners an event of type ty finds along the path, in invocation order
Flatten(path, L) ==
    IF path = <<>> THEN <<>> ELSE L[Head(path)] \o Flatten(Tail(path), L)

ListenersOf(ty) == IF ty = "submit" THEN submitL ELSE clickL

\* faulty variant: line 9 left out
PreventDefaultMissing(event) == event

\* event.preventDefault(), line 9
PreventDefault(event) == [event EXCEPT !.defaultPrevented = TRUE]

\* console.log('Form submitted:', form), line 11
FormTrace(form) == [label |-> "Form submitted:", arg |-> form]

\* faulty variant: console.log('Button clicked:') without the element
ButtonTraceNoElement(button) == [label |-> "Button clicked:", arg |-> Root]

\* console.log('Button clicked:', button), line 19
ButtonTrace(button) == [label |-> "Button clicked:", arg |-> button]

\* the event with one listener taken off and what that listener logged
Ran(event, line) ==
    [event EXCEPT !.pending = Tail(@), !.out = Append(@, line)]

\* the user interacts with element e of the document: the event loop dispatches
\* the event, and the listeners along the propagation path become due
Dispatch(ty, e) ==
    /\ Idle
    /\ Len(history) < MaxEvents
    /\ e \in doc
    /\ ty = "submit" => tag[e] = "form"
    /\ cur' = [type |-> ty, target |-> e, defaultPrevented |-> FALSE,
               pending |-> Flatten(Path(e), ListenersOf(ty)), out |-> <<>>,
               after |-> ready]
    /\ UNCHANGED <<domVars, submitL, clickL, passVars, console, navigated, history>>

\* faulty variant: the listener is registered with {once: true} and is gone after it ran
SubmitHandlerOnce ==
    /\ cur # None
    /\ cur.type = "submit"
    /\ cur.pending # <<>>
    /\ LET form == Head(cur.pending) IN
        /\ cur' = Ran(PreventDefault(cur), FormTrace(form))
        /\ console' = Append(console, FormTrace(form))
        /\ submitL' = [submitL EXCEPT ![form] = Tail(@)]
    /\ UNCHANGED <<domVars, clickL, passVars, navigated, history>>

\* the submit listener of lines 7-12, with form the element its closure captured
SubmitHandler ==
    /\ cur # None
    /\ cur.type = "submit"
    /\ cur.pending # <<>>
    /\ LET form == Head(cur.pending) IN
        /\ cur' = Ran(PreventDefault(cur), FormTrace(form))
        /\ console' = Append(console, FormTrace(form))
    /\ UNCHANGED <<domVars, submitL, clickL, passVars, navigated, history>>

\* faulty variant: the click listener calls event.preventDefault() like the submit one
ClickHandlerPreventing ==
    /\ cur # None
    /\ cur.type = "click"
    /\ cur.pending # <<>>
    /\ LET button == Head(cur.pending) IN
        /\ cur' = Ran(PreventDefault(cur), ButtonTrace(button))
        /\ console' = Append(console, ButtonTrace(button))
    /\ UNCHANGED <<domVars, submitL, clickL, passVars, navigated, history>>

\* faulty variant: the click listener logs event.target instead of the captured button
ClickHandlerLogsTarget ==
    /\ cur # None
    /\ cur.type = "click"
    /\ cur.pending # <<>>
    /\ cur' = Ran(cur, ButtonTrace(cur.target))
    /\ console' = Append(console, ButtonTrace(cur.target))
    /\ UNCHANGED <<domVars, submitL, clickL, passVars, navigated, history>>

\* the click listener of lines 18-20, with button the element its closure captured
ClickHandler ==
    /\ cur # None
    /\ cur.type = "click"
    /\ cur.pending # <<>>
    /\ LET button == Head(cur.pending) IN
        /\ cur' = Ran(cur, ButtonTrace(button))
        /\ console' = Append(console, ButtonTrace(button))
    /\ UNCHANGED <<domVars, submitL, clickL, passVars, navigated, history>>

\* every listener has run: the browser performs the event's default action
\* unless it was prevented; an unprevented submit navigates away from the page
DefaultAction ==
    /\ cur # None
    /\ cur.pending = <<>>
    /\ navigated' = (cur.type = "submit" /\ ~cur.defaultPrevented)
    /\ history' = Append(history, [type |-> cur.type, target |-> cur.target,
                                   defaultPrevented |-> cur.defaultPrevented,
                                   out |-> cur.out, after |-> cur.after])
    /\ cur' = None
    /\ UNCHANGED <<domVars, submitL, clickL, passVars, console>>

----------------------------------------------------------------------------
Next ==
    \/ \E e \in Elems, t \in {"form", "other"}, c \in BOOLEAN, p \in Elems \cup {Root} :
          AddElement(e, t, c, p)
    \/ ContentLoaded
    \/ BindForm
    \/ SelectButtons
    \/ BindButton
    \/ Return
    \/ \E ty \in {"submit", "click"}, e \in Elems : Dispatch(ty, e)
    \/ SubmitHandler
    \/ ClickHandler
    \/ DefaultAction

Spec == Init /\ [][Next]_vars

\* the same page, with the callback invoked up to MaxPasses times
NextReinvoke == Next \/ Reinvoke

SpecReinvoke == Init /\ [][NextReinvoke]_vars
----------------------------------------------------------------------------
(* Vocabulary of the properties *)

\* the forms and the '.btn' elements that were in the document when the callback started
FormsAtTrigger == {e \in docAtTrigger : tag[e] = "form"}
MarkedAtTrigger == {e \in docAtTrigger : cls[e]}

Events == {history[k] : k \in 1..Len(history)}

\* the event was dispatched after the callback had run, at an element it had seen
OnBoundForm(h) == h.type = "submit" /\ h.after >= 1 /\ h.target \in FormsAtTrigger
OnBoundButton(h) == h.type = "click" /\ h.after >= 1 /\ h.target \in MarkedAtTrigger

\* the elements on the event's propagation path that carried '.btn' at trigger time
MarkedOnPath(h) == SelectSeq2(Path(h.target), MarkedAtTrigger)

\* the console lines the two handlers are to write about element e
FormLine(e) == [label |-> "Form submitted:", arg |-> e]
ClickLine(e) == [label |-> "Button clicked:", arg |-> e]

IsClickTrace(line) == line.label = "Button clicked:"
IsFormTrace(line) == line.label = "Form submitted:"

\* how many lines of out refer to element e
Mentions(out, e) == Cardinality({k \in 1..Len(out) : out[k].arg = e})

PassDone == ready >= 1 /\ pc = "idle"

LastEvent == history[Len(history)]

----------------------------------------------------------------------------
\* C1: once the callback has run, every submit event at a form that was in the
\* document at trigger time has its default prevented, so the page never
\* navigates because of it, however many such events occur; with no form in the
\* document the pass binds no submit listener.
C1_SubmitNeverNavigates ==
    /\ \A h \in Events : OnBoundForm(h) => h.defaultPrevented
    /\ (navigated /\ history # <<>>) => ~OnBoundForm(LastEvent)
    /\ (PassDone /\ FormsAtTrigger = {}) => \A e \in Elems : submitL[e] = <<>>

C1_Witness ==
    /\ ~navigated
    /\ Len(history) >= 2
    /\ \A k \in 1..2 : OnBoundForm(history[k])
    /\ history[1].target # history[2].target

----------------------------------------------------------------------------
\* C2 as stated: every click event at an element that carried '.btn' at trigger
\* time produces exactly one trace, the one referring to the clicked element,
\* and its default is not prevented.
C2_ExactlyOneTracePerClick ==
    \A h \in Events : OnBoundButton(h) =>
        /\ h.out = <<ClickLine(h.target)>>
        /\ ~h.defaultPrevented

\* C2 as amended: every such click produces exactly one trace referring to the
\* clicked element, then one trace for each ancestor that carried '.btn' at
\* trigger time (the event bubbles), and nothing else; a click at a marked
\* element with no marked ancestor produces exactly one trace; no default is
\* prevented.
C2_OneTracePerMarkedElementOnPath ==
    \A h \in Events : OnBoundButton(h) =>
        /\ Mentions(h.out, h.target) = 1
        /\ h.out[1] = ClickLine(h.target)
        /\ Len(h.out) = Len(MarkedOnPath(h))
        /\ \A k \in 1..Len(h.out) : h.out[k] = ClickLine(MarkedOnPath(h)[k])
        /\ (Len(MarkedOnPath(h)) = 1 => h.out = <<ClickLine(h.target)>>)
        /\ ~h.defaultPrevented

C2_Witness ==
    /\ Len(history) >= 2
    /\ OnBoundButton(history[1]) /\ Len(history[1].out) = 2
    /\ OnBoundButton(history[2]) /\ Len(history[2].out) = 1

----------------------------------------------------------------------------
\* C3: when the callback has been invoked twice on the same document, every
\* element it bound still has exactly one listener of each kind, and a submit
\* event at a bound form still produces exactly one trace.
C3_SecondPassBindsNothingNew ==
    (ready = 2 /\ pc = "idle") =>
        /\ \A e \in FormsAtTrigger : Len(submitL[e]) = 1
        /\ \A e \in MarkedAtTrigger : Len(clickL[e]) = 1
        /\ \A h \in Events :
              (h.type = "submit" /\ h.after = 2 /\ h.target \in FormsAtTrigger)
                  => (Len(h.out) = 1 /\ h.defaultPrevented)

----------------------------------------------------------------------------
\* C4: after the one pass of a page load, every form that was in the document
\* at trigger time has exactly one submit listener and every '.btn' element
\* exactly one click listener (an element that is both has one of each), and no
\* other element has any; this stays so whatever happens afterwards.
C4_ExactlyOneBindingPerMatch ==
    PassDone =>
        \A e \in Elems :
            /\ Len(submitL[e]) = (IF e \in FormsAtTrigger THEN 1 ELSE 0)
            /\ Len(clickL[e]) = (IF e \in MarkedAtTrigger THEN 1 ELSE 0)
            /\ \A k \in 1..Len(submitL[e]) : submitL[e][k] = e
            /\ \A k \in 1..Len(clickL[e]) : clickL[e][k] = e

C4_Witness ==
    /\ PassDone
    /\ \E e \in FormsAtTrigger \cap MarkedAtTrigger :
          Len(submitL[e]) = 1 /\ Len(clickL[e]) = 1
    /\ \E e \in doc \ docAtTrigger :
          cls[e] /\ submitL[e] = <<>> /\ clickL[e] = <<>>
    /\ Len(history) >= 2
    /\ \A k \in 1..2 : history[k].after = 1

----------------------------------------------------------------------------
----------------------------------------------------------------------------
IsClick(h) == h.type = "click"

ClickTraces == SelectSeq(console, IsClickTrace)

RECURSIVE TracesOf(_)
\* one 'Button clicked:' line for each element of the sequence
TracesOf(bs) == IF bs = <<>> THEN <<>> ELSE <<ClickLine(Head(bs))>> \o TracesOf(Tail(bs))

RECURSIVE ClickTracesDue(_)
\* what the clicks of hs leave on the console: for each click made after the
\* pass, its marked elements from the target outwards
ClickTracesDue(hs) ==
    IF hs = <<>> THEN <<>>
    ELSE (IF IsClick(Head(hs)) /\ Head(hs).after >= 1
            THEN TracesOf(MarkedOnPath(Head(hs))) ELSE <<>>)
         \o ClickTracesDue(Tail(hs))

\* C6 as stated: when every click so far was at a bound '.btn' element, the click
\* traces are as many as the clicks and the k-th refers to the k-th click's element.
C6_KthTraceIsKthClick ==
    LET clicks == SelectSeq(history, IsClick) IN
    (cur = None /\ \A k \in 1..Len(clicks) : OnBoundButton(clicks[k])) =>
        /\ Len(ClickTraces) = Len(clicks)
        /\ \A k \in 1..Len(clicks) : ClickTraces[k] = ClickLine(clicks[k].target)

\* C6 as amended: the click traces are the clicks' traces in click order, each
\* click contributing its marked elements from the target outwards (the clicked
\* element first, then its marked ancestors); when no clicked control has a
\* marked ancestor there is one trace per click and the k-th refers to the k-th
\* click's element.
C6_TracesFollowClickOrder ==
    LET clicks == SelectSeq(history, IsClick) IN
    cur = None =>
        /\ ClickTraces = ClickTracesDue(history)
        /\ (\A k \in 1..Len(clicks) :
                OnBoundButton(clicks[k]) /\ Len(MarkedOnPath(clicks[k])) = 1)
            => /\ Len(ClickTraces) = Len(clicks)
               /\ \A k \in 1..Len(clicks) : ClickTraces[k] = ClickLine(clicks[k].target)

C6_Witness ==
    /\ cur = None
    /\ Len(history) = 3
    /\ \A k \in 1..3 : OnBoundButton(history[k]) /\ Len(history[k].out) = 1
    /\ history[1].target # history[2].target
    /\ history[2].target # history[3].target
    /\ Len(ClickTraces) = 3

----------------------------------------------------------------------------
\* C7 as stated: with no '.btn' element at trigger time the pass binds no click
\* listener and no click leaves a trace; and a click at an element that has no
\* click listener bound never emits a trace.
C7_UnboundTargetNoTrace ==
    /\ (PassDone /\ MarkedAtTrigger = {}) =>
          /\ \A e \in Elems : clickL[e] = <<>>
          /\ \A h \in Events : IsClick(h) => h.out = <<>>
    /\ \A h \in Events : (IsClick(h) /\ ~OnBoundButton(h)) => h.out = <<>>

\* C7 as amended: with no '.btn' element at trigger time the pass binds no click
\* listener and no click leaves a trace; and a click emits no trace when neither
\* its target nor any ancestor of the target has a click listener bound.
C7_UnboundPathNoTrace ==
    /\ (PassDone /\ MarkedAtTrigger = {}) =>
          /\ \A e \in Elems : clickL[e] = <<>>
          /\ \A h \in Events : IsClick(h) => h.out = <<>>
    /\ \A h \in Events :
          (IsClick(h) /\ (h.after = 0 \/ MarkedOnPath(h) = <<>>)) => h.out = <<>>

C7_Witness ==
    /\ PassDone
    /\ MarkedAtTrigger = {}
    /\ Cardinality(docAtTrigger) = 2
    /\ Len(history) >= 2
    /\ \A k \in 1..2 : IsClick(history[k]) /\ history[k].after = 1 /\ history[k].out = <<>>
    /\ history[1].target # history[2].target

----------------------------------------------------------------------------
\* C8: while the callback is under way no event is in dispatch and no handler
\* writes a trace; an event in dispatch is followed to its last listener before
\* another is dispatched, and the callback does not start under it.
C8_RunToCompletion ==
    [][/\ (pc # "idle" \/ pc' # "idle") =>
             (cur = None /\ cur' = None /\ UNCHANGED <<console, history, navigated>>)
       /\ (cur # None /\ cur' # None) =>
             /\ cur'.type = cur.type
             /\ cur'.target = cur.target
             /\ cur'.after = cur.after
             /\ cur'.pending = Tail(cur.pending)
       /\ (cur # None /\ cur' = None) => cur.pending = <<>>
       /\ (cur = None /\ cur' # None) => PassDone \/ ready = 0]_vars

C8_Witness ==
    /\ PassDone
    /\ cur # None
    /\ cur.out # <<>>
    /\ cur.pending # <<>>
    /\ history # <<>>
    /\ history[1].after = 0

----------------------------------------------------------------------------
\* a listener has run: the event in dispatch has moved on by one listener
HandlerStep == cur # None /\ cur' # None /\ cur' # cur

\* C9: a handler's run appends exactly one trace, naming the element the handler
\* was bound to, and changes nothing else: not the listeners, the document or
\* the page; the submit handler prevents the event's default and writes a form
\* trace, the click handler prevents nothing and writes a click trace.
C9_HandlerFrame ==
    [][HandlerStep =>
          /\ Len(console') = Len(console) + 1
          /\ SubSeq(console', 1, Len(console)) = console
          /\ console'[Len(console')].arg = Head(cur.pending)
          /\ cur'.out = Append(cur.out, console'[Len(console')])
          /\ cur.type = "submit" =>
                (IsFormTrace(console'[Len(console')]) /\ cur'.defaultPrevented)
          /\ cur.type = "click" =>
                /\ IsClickTrace(console'[Len(console')])
                /\ cur'.defaultPrevented = cur.defaultPrevented
          /\ UNCHANGED <<domVars, submitL, clickL, passVars, navigated, history>>]_vars

C9_Witness ==
    /\ cur # None
    /\ cur.type = "submit"
    /\ cur.out = <<FormLine(cur.target)>>
    /\ cur.defaultPrevented
    /\ \E h \in Events : IsClick(h) /\ h.out # <<>> /\ ~h.defaultPrevented
    /\ \E e \in doc : e # cur.target /\ Len(submitL[e]) + Len(clickL[e]) >= 1

----------------------------------------------------------------------------
\* the event came before the pass, or at a form / '.btn' element added after it
Unseen(h) ==
    \/ h.after = 0
    \/ /\ h.target \notin docAtTrigger
       /\ (h.type = "submit" \/ cls[h.target])

====
